---- MODULE Spec2Model ----
(***************************************************************************)
(* codegent: the agent loop of main.go (Agent.Run, Agent.executeTool) and  *)
(* its three filesystem tools (ReadFile, ListFiles, EditFile).             *)
(*                                                                         *)
(* Text is a sequence of characters, a path is a sequence of names ("" is  *)
(* the empty sequence for both).  A JSON value is a record [t, v] with t   *)
(* one of "str", "absent", "null", "num".                                  *)
(***************************************************************************)
EXTENDS Integers, Sequences, FiniteSets, TLC

\* ------------------------------------------------------------------ bounds
MaxLen == 2
MaxParts == 2
MaxLines == 2

Alphabet == {"a", "b"}
Strings == UNION {[1..k -> Alphabet] : k \in 0..MaxLen}

DirNames == {"a", "b"}
Paths == {<<n>> : n \in DirNames} \cup {<<n, m>> : n \in DirNames, m \in DirNames}
FailedTxt == <<"failed.txt">>
FizzBuzzJs == <<"fizzbuzz.js">>
AllPaths == Paths \cup {FailedTxt, FizzBuzzJs}

\* ------------------------------------------------------------- filesystem
NoNode == [kind |-> "none", data |-> <<>>]
DirNode == [kind |-> "dir", data |-> <<>>]
FileNode(c) == [kind |-> "file", data |-> c]

Prefix(p, i) == SubSeq(p, 1, i)

\* The error of resolving the directory part of p: the first component that
\* is missing (ENOENT) or is a regular file (ENOTDIR).
LookupErr(fs, p) ==
    LET bad == {i \in 1..(Len(p) - 1) : fs[Prefix(p, i)].kind # "dir"}
    IN  IF bad = {} THEN ""
        ELSE LET m == CHOOSE i \in bad : \A j \in bad : i <= j
             IN  IF fs[Prefix(p, m)].kind = "none" THEN "ENOENT" ELSE "ENOTDIR"

os_ReadFile(fs, p) ==
    IF p = <<>> THEN [err |-> "ENOENT", data |-> <<>>]
    ELSE IF LookupErr(fs, p) # "" THEN [err |-> LookupErr(fs, p), data |-> <<>>]
    ELSE IF fs[p].kind = "none" THEN [err |-> "ENOENT", data |-> <<>>]
    ELSE IF fs[p].kind = "dir" THEN [err |-> "EISDIR", data |-> <<>>]
    ELSE [err |-> "", data |-> fs[p].data]

\* wr = -1: the write succeeds.  wr = -2: the open fails and the file is
\* untouched.  wr >= 0: the file is opened (created, truncated) and the write
\* fails after wr bytes.
os_WriteFile(fs, p, data, wr) ==
    IF p = <<>> THEN [err |-> "ENOENT", fs |-> fs]
    ELSE IF LookupErr(fs, p) # "" THEN [err |-> LookupErr(fs, p), fs |-> fs]
    ELSE IF fs[p].kind = "dir" THEN [err |-> "EISDIR", fs |-> fs]
    ELSE IF wr = -2 THEN [err |-> "EIO", fs |-> fs]
    ELSE IF wr >= 0
         THEN [err |-> "EIO",
               fs |-> [fs EXCEPT ![p] = FileNode(Prefix(data, IF wr < Len(data) THEN wr ELSE Len(data)))]]
    ELSE [err |-> "", fs |-> [fs EXCEPT ![p] = FileNode(data)]]

os_MkdirAll(fs, d) ==
    LET bad == {i \in 1..Len(d) : fs[Prefix(d, i)].kind = "file"}
        stop == IF bad = {} THEN Len(d) + 1
                ELSE CHOOSE i \in bad : \A j \in bad : i <= j
    IN  [err |-> IF bad = {} THEN "" ELSE "ENOTDIR",
         fs |-> [q \in DOMAIN fs |->
                    IF /\ Len(q) < stop
                       /\ Len(q) <= Len(d)
                       /\ q = Prefix(d, Len(q))
                       /\ fs[q].kind = "none"
                    THEN DirNode ELSE fs[q]]]

path_Dir(p) == IF Len(p) <= 1 THEN <<>> ELSE Prefix(p, Len(p) - 1)

\* ------------------------------------------------------------ JSON values
JStr(v) == [t |-> "str", v |-> v]
JAbsent == [t |-> "absent", v |-> <<>>]
JNull == [t |-> "null", v |-> <<>>]
JNum == [t |-> "num", v |-> <<>>]

\* json.Unmarshal of one field into a Go string: a string is stored, null and
\* a missing key leave the zero value, anything else is a type error.
FieldString(j) == IF j.t = "str" THEN j.v ELSE <<>>
FieldTypeError(j) == j.t = "num"

\* ---------------------------------------------------------- strings.Replace
IndexAt(s, old, i) ==
    /\ i + Len(old) - 1 <= Len(s)
    /\ SubSeq(s, i, i + Len(old) - 1) = old

RECURSIVE ReplaceFrom(_, _, _, _)
ReplaceFrom(s, old, new, i) ==
    IF i > Len(s) THEN <<>>
    ELSE IF IndexAt(s, old, i) THEN new \o ReplaceFrom(s, old, new, i + Len(old))
    ELSE <<s[i]>> \o ReplaceFrom(s, old, new, i + 1)

\* The variant without the insertion after the last character.
RECURSIVE ReplaceEmpty_NoTail(_, _, _)
ReplaceEmpty_NoTail(s, new, i) ==
    IF i > Len(s) THEN <<>>
    ELSE new \o <<s[i]>> \o ReplaceEmpty_NoTail(s, new, i + 1)

RECURSIVE ReplaceEmpty(_, _, _)
ReplaceEmpty(s, new, i) ==
    IF i > Len(s) THEN new
    ELSE new \o <<s[i]>> \o ReplaceEmpty(s, new, i + 1)

\* strings.Replace with n = 1 instead of n = -1.
strings_Replace_First(s, old, new) ==
    IF old = new THEN s
    ELSE IF old = <<>> THEN new \o s
    ELSE IF \E i \in 1..Len(s) : IndexAt(s, old, i)
         THEN LET i == CHOOSE k \in 1..Len(s) :
                          IndexAt(s, old, k) /\ \A j \in 1..(k - 1) : ~IndexAt(s, old, j)
              IN  SubSeq(s, 1, i - 1) \o new \o SubSeq(s, i + Len(old), Len(s))
    ELSE s

strings_Replace(s, old, new) ==
    IF old = new THEN s
    ELSE IF old = <<>> THEN ReplaceEmpty(s, new, 1)
    ELSE ReplaceFrom(s, old, new, 1)

\* ------------------------------------------------------------------ tools
\* What a tool function returns: (string, error), a panic, and the filesystem
\* it leaves.  out names the kind of the returned string, data carries it.
Ret(err, out, data, fs) == [panic |-> FALSE, err |-> err, out |-> out, data |-> data, fs |-> fs]
Panic(fs) == [panic |-> TRUE, err |-> "", out |-> "", data |-> <<>>, fs |-> fs]

ErrUnmarshal == "json: cannot unmarshal into Go struct field"
ErrSameStr == "old_str and new_str must be different"
ErrNoFile == "file does not exist and old_str is not empty"
ErrNoMatch == "old_str not found in file"
ErrToolNotFound == "tool not found"
OutContent == "file content"
OutListing == "file listing"
OutUpdated == "File updated successfully"
OutCreated == "Successfully created file"

ReadFile(fs, args) ==
    IF FieldTypeError(args.path) THEN Ret(ErrUnmarshal, "", <<>>, fs)
    ELSE LET r == os_ReadFile(fs, FieldString(args.path))
         IN  IF r.err # "" THEN Ret(r.err, "", <<>>, fs)
             ELSE Ret("", OutContent, r.data, fs)

NameRank == [n \in {"a", "b", "failed.txt", "fizzbuzz.js"} |->
                IF n = "a" THEN 1 ELSE IF n = "b" THEN 2 ELSE IF n = "failed.txt" THEN 3 ELSE 4]

Children(fs, d) ==
    {p \in DOMAIN fs : /\ Len(p) = Len(d) + 1
                       /\ Prefix(p, Len(d)) = d
                       /\ fs[p].kind # "none"}

\* filepath.WalkDir below root: the entries of a directory in lexical order
\* of their names, a directory directly followed by its own walk.
RECURSIVE WalkDir(_, _, _)
WalkDir(fs, root, S) ==
    IF S = {} THEN <<>>
    ELSE LET k == CHOOSE p \in S : \A q \in S : NameRank[p[Len(p)]] <= NameRank[q[Len(q)]]
             rel == SubSeq(k, Len(root) + 1, Len(k))
         IN  IF fs[k].kind = "dir"
             THEN <<[rel |-> rel, dir |-> TRUE]>>
                    \o WalkDir(fs, root, Children(fs, k))
                    \o WalkDir(fs, root, S \ {k})
             ELSE <<[rel |-> rel, dir |-> FALSE]>> \o WalkDir(fs, root, S \ {k})

ListFiles_NotRelative(fs, args) ==
    IF FieldTypeError(args.path) THEN Ret("failed to parse input", "", <<>>, fs)
    ELSE LET dir == FieldString(args.path)
         IN  IF LookupErr(fs, dir) # "" THEN Ret(LookupErr(fs, dir), "", <<>>, fs)
             ELSE IF dir # <<>> /\ fs[dir].kind = "none" THEN Ret("ENOENT", "", <<>>, fs)
             ELSE IF dir # <<>> /\ fs[dir].kind = "file" THEN Ret("", OutListing, <<>>, fs)
             ELSE Ret("", OutListing, WalkDir(fs, <<>>, Children(fs, dir)), fs)

ListFiles(fs, args) ==
    IF FieldTypeError(args.path) THEN Ret("failed to parse input", "", <<>>, fs)
    ELSE LET dir == FieldString(args.path)
         IN  IF dir = <<>> THEN Ret("", OutListing, WalkDir(fs, <<>>, Children(fs, <<>>)), fs)
             ELSE IF LookupErr(fs, dir) # "" THEN Ret(LookupErr(fs, dir), "", <<>>, fs)
             ELSE IF fs[dir].kind = "none" THEN Ret("ENOENT", "", <<>>, fs)
             ELSE IF fs[dir].kind = "file" THEN Ret("", OutListing, <<>>, fs)
             ELSE Ret("", OutListing, WalkDir(fs, dir, Children(fs, dir)), fs)

\* EditFile, lines 369-400: the decoding of the arguments.  When the typed
\* decoding fails the arguments are decoded again as an untyped map and each
\* field is taken from it by a type assertion, which panics on a value that
\* is not a string.
DecodeEditFileInput(args) ==
    LET typed == [Path |-> FieldString(args.path),
                  OldStr |-> FieldString(args.old_str),
                  NewStr |-> FieldString(args.new_str)]
        failed == \/ FieldTypeError(args.path)
                  \/ FieldTypeError(args.old_str)
                  \/ FieldTypeError(args.new_str)
        pathDefault == args.path.t = "absent" \/ args.path = JStr(<<>>)
        pathPanic == ~pathDefault /\ args.path.t # "str"
        oldPanic == args.old_str.t = "num"
        newPanic == args.new_str.t = "num"
        partial == [Path |-> IF pathDefault THEN FizzBuzzJs ELSE args.path.v,
                    OldStr |-> IF args.old_str.t = "absent" THEN <<>>
                               ELSE IF args.old_str.t = "null" THEN typed.OldStr
                               ELSE args.old_str.v,
                    NewStr |-> IF args.new_str.t \in {"absent", "null"} THEN typed.NewStr
                               ELSE args.new_str.v]
        in == IF failed THEN partial ELSE typed
    IN  [panic |-> failed /\ (pathPanic \/ oldPanic \/ newPanic),
         Path |-> IF in.Path = <<>> THEN FailedTxt ELSE in.Path,
         OldStr |-> in.OldStr,
         NewStr |-> in.NewStr]

createNewFile_NoMkdirAll(fs, filePath, content, wr) ==
    LET w == os_WriteFile(fs, filePath, content, wr)
    IN  IF w.err # "" THEN Ret("failed to create file", "", <<>>, w.fs)
        ELSE Ret("", OutCreated, filePath, w.fs)

createNewFile(fs, filePath, content, wr) ==
    LET dir == path_Dir(filePath)
        md == IF dir # <<>> THEN os_MkdirAll(fs, dir) ELSE [err |-> "", fs |-> fs]
        w == os_WriteFile(md.fs, filePath, content, wr)
    IN  IF md.err # "" THEN Ret("failed to create directory", "", <<>>, md.fs)
        ELSE IF w.err # "" THEN Ret("failed to create file", "", <<>>, w.fs)
        ELSE Ret("", OutCreated, filePath, w.fs)

\* EditFile, line 402.
oldEqualsNew_Unchecked(OldStr, NewStr) == FALSE

oldEqualsNew(OldStr, NewStr) == OldStr = NewStr /\ OldStr # <<>>

\* EditFile, line 428.
oldNotFound_Unchecked(oldContent, newContent, OldStr) == FALSE

oldNotFound(oldContent, newContent, OldStr) == oldContent = newContent /\ OldStr # <<>>

\* EditFile, line 413.
missingFileWithOld_Unchecked(OldStr) == FALSE

missingFileWithOld(OldStr) == OldStr # <<>>

EditFile(fs, args, wr) ==
    LET in == DecodeEditFileInput(args)
        rd == os_ReadFile(fs, in.Path)
        newContent == strings_Replace(rd.data, in.OldStr, in.NewStr)
        w == os_WriteFile(fs, in.Path, newContent, wr)
    IN  IF in.panic THEN Panic(fs)
        ELSE IF oldEqualsNew(in.OldStr, in.NewStr) THEN Ret(ErrSameStr, "", <<>>, fs)
        ELSE IF rd.err = "ENOENT"
             THEN IF missingFileWithOld(in.OldStr) THEN Ret(ErrNoFile, "", <<>>, fs)
                  ELSE createNewFile(fs, in.Path, in.NewStr, wr)
        ELSE IF rd.err # "" THEN Ret(rd.err, "", <<>>, fs)
        ELSE IF oldNotFound(rd.data, newContent, in.OldStr) THEN Ret(ErrNoMatch, "", <<>>, fs)
        ELSE IF w.err # "" THEN Ret(w.err, "", <<>>, w.fs)
        ELSE Ret("", OutUpdated, in.Path, w.fs)

\* The registry (main.go, tools := ...) and Agent.executeTool: the result map
\* {"error": msg} or {"result": response}.
ToolNames == {"read_file", "list_files", "edit_file"}

ToolFunction(name, fs, args, wr) ==
    IF name = "read_file" THEN ReadFile(fs, args)
    ELSE IF name = "list_files" THEN ListFiles(fs, args)
    ELSE EditFile(fs, args, wr)

executeTool(fs, call, wr) ==
    IF call.name \notin ToolNames
    THEN [panic |-> FALSE, traced |-> FALSE, fs |-> fs,
          result |-> [key |-> "error", msg |-> ErrToolNotFound, data |-> <<>>]]
    ELSE LET r == ToolFunction(call.name, fs, call.args, wr)
         IN  [panic |-> r.panic, traced |-> TRUE, fs |-> r.fs,
              result |-> IF r.err # ""
                         THEN [key |-> "error", msg |-> r.err, data |-> <<>>]
                         ELSE [key |-> "result", msg |-> r.out, data |-> r.data]]

\* ------------------------------------------------------- the model gateway
NoArgs == [path |-> JAbsent, old_str |-> JAbsent, new_str |-> JAbsent]
TextPart == [type |-> "Text", name |-> "", args |-> NoArgs]
FunctionCall(name, args) == [type |-> "FunctionCall", name |-> name, args |-> args]
EditArgs(path, old, new) == [path |-> path, old_str |-> old, new_str |-> new]
PathArg(path) == [path |-> path, old_str |-> JAbsent, new_str |-> JAbsent]

\* The tool calls the gateway issues in the agent loop.
GatewayCalls ==
    { FunctionCall("write_file", NoArgs),
      FunctionCall("read_file", PathArg(JStr(<<"a">>))),
      FunctionCall("list_files", NoArgs),
      FunctionCall("edit_file", EditArgs(JStr(<<"b", "a">>), JAbsent, JStr(<<"a">>))),
      FunctionCall("edit_file", EditArgs(JStr(<<"a">>), JStr(<<"a">>), JStr(<<"b">>))),
      FunctionCall("edit_file", EditArgs(JNum, JStr(<<>>), JStr(<<"a">>))) }

SeqsUpTo(S, n) == UNION {[1..k -> S] : k \in 0..n}

\* What session.SendMessage returns: an error, or a response that has no
\* candidate, a candidate without content, or a candidate with content parts.
Responses ==
    {[kind |-> k, parts |-> <<>>] : k \in {"err", "nocand", "nilcontent"}}
    \cup {[kind |-> "ok", parts |-> ps] : ps \in SeqsUpTo(GatewayCalls \cup {TextPart}, MaxParts)}

RECURSIVE SelectType(_, _)
SelectType(parts, type) ==
    IF parts = <<>> THEN <<>>
    ELSE IF Head(parts).type = type THEN <<Head(parts)>> \o SelectType(Tail(parts), type)
    ELSE SelectType(Tail(parts), type)

\* ---------------------------------------------------------------- the state
VARIABLES
    pc,         \* where Agent.Run stands
    stdin,      \* lines the input source still delivers before end-of-input
    fs,         \* the filesystem below the working directory
    sent,       \* the turns sent to the gateway: [kind, n], n tool results
    lastResp,   \* the latest gateway response: [kind, calls]
    toolCalls,  \* Run's toolCalls
    toolParts,  \* Run's toolParts
    stdout,     \* what this iteration has printed
    faulty      \* whether the disk may fail a write

vars == <<pc, stdin, fs, sent, lastResp, toolCalls, toolParts, stdout, faulty>>

EmptyFS == [p \in AllPaths |-> NoNode]
NoResp == [kind |-> "none", calls |-> 0]
UserTurn == [kind |-> "user", n |-> 0]
ToolsTurn(n) == [kind |-> "tools", n |-> n]

WriteOutcomes == {-1} \cup (IF faulty THEN {-2} \cup (0..MaxLen) ELSE {})

Init ==
    /\ pc = "AwaitingUserInput"
    /\ stdin \in 0..MaxLines
    /\ fs = [EmptyFS EXCEPT ![<<"a">>] = FileNode(<<"a", "a">>)]
    /\ sent = <<>>
    /\ lastResp = NoResp
    /\ toolCalls = <<>>
    /\ toolParts = <<>>
    /\ stdout = <<>>
    /\ faulty = FALSE

\* Run, lines 104-106 and 154: break, return nil.  The variant continues.
endOfInput_Continue == "AwaitingUserInput"

endOfInput == "Closed"

\* Run, lines 110-113: return err.  The variant goes on with the next line.
inferenceError_Continue == "AwaitingUserInput"

inferenceError == "Failed"

\* Run, lines 139-142: return err.
toolResponseError == "Failed"

\* Run, lines 101-106: the prompt, and the input source at end-of-input.
GetUserMessageEOF ==
    /\ pc = "AwaitingUserInput"
    /\ stdin = 0
    /\ pc' = endOfInput
    /\ stdout' = <<"You">>
    /\ UNCHANGED <<stdin, fs, sent, lastResp, toolCalls, toolParts, faulty>>

\* Run, lines 101-109: the prompt, one line read, sent to the gateway.
SendUserText ==
    /\ pc = "AwaitingUserInput"
    /\ stdin > 0
    /\ stdin' = stdin - 1
    /\ stdout' = <<"You">>
    /\ sent' = Append(sent, UserTurn)
    /\ lastResp' = NoResp
    /\ pc' = "AwaitingModelResponse"
    /\ UNCHANGED <<fs, toolCalls, toolParts, faulty>>

Texts(parts) == [i \in 1..Len(SelectType(parts, "Text")) |-> "Gemini"]

\* Run, lines 109-127: the response to the user text.
ModelResponse(r) ==
    /\ pc = "AwaitingModelResponse"
    /\ lastResp' = [kind |-> r.kind, calls |-> Len(SelectType(r.parts, "FunctionCall"))]
    /\ IF r.kind = "err"
       THEN pc' = inferenceError /\ UNCHANGED <<stdout, toolCalls, toolParts>>
       ELSE IF r.kind # "ok"
       THEN pc' = "Crashed" /\ UNCHANGED <<stdout, toolCalls, toolParts>>
       ELSE /\ stdout' = stdout \o Texts(r.parts)
            /\ toolCalls' = SelectType(r.parts, "FunctionCall")
            /\ toolParts' = <<>>
            /\ pc' = IF toolCalls' = <<>> THEN "AwaitingUserInput" ELSE "DispatchingTools"
    /\ UNCHANGED <<stdin, fs, sent, faulty>>

\* The variant takes the calls from the last to the first.
ExecuteTool_LastFirst(wr) ==
    /\ pc = "DispatchingTools"
    /\ Len(toolParts) < Len(toolCalls)
    /\ LET call == toolCalls[Len(toolCalls) - Len(toolParts)]
           r == executeTool(fs, call, wr)
       IN  /\ fs' = r.fs
           /\ stdout' = IF r.traced THEN Append(stdout, "tool") ELSE stdout
           /\ IF r.panic
              THEN pc' = "Crashed" /\ UNCHANGED toolParts
              ELSE /\ toolParts' = Append(toolParts, [Name |-> call.name, Response |-> r.result])
                   /\ UNCHANGED pc
    /\ UNCHANGED <<stdin, sent, lastResp, toolCalls, faulty>>

\* Run, lines 129-135: one iteration of the loop over toolCalls.
ExecuteTool(wr) ==
    /\ pc = "DispatchingTools"
    /\ Len(toolParts) < Len(toolCalls)
    /\ LET call == toolCalls[Len(toolParts) + 1]
           r == executeTool(fs, call, wr)
       IN  /\ fs' = r.fs
           /\ stdout' = IF r.traced THEN Append(stdout, "tool") ELSE stdout
           /\ IF r.panic
              THEN pc' = "Crashed" /\ UNCHANGED toolParts
              ELSE /\ toolParts' = Append(toolParts, [Name |-> call.name, Response |-> r.result])
                   /\ UNCHANGED pc
    /\ UNCHANGED <<stdin, sent, lastResp, toolCalls, faulty>>

\* Run, line 138: the tool results leave for the gateway as one message.
SendToolResults ==
    /\ pc = "DispatchingTools"
    /\ Len(toolParts) = Len(toolCalls)
    /\ sent' = Append(sent, ToolsTurn(Len(toolParts)))
    /\ pc' = "AwaitingFollowupResponse"
    /\ toolCalls' = <<>>
    /\ toolParts' = <<>>
    /\ UNCHANGED <<stdin, fs, lastResp, stdout, faulty>>

\* Run, lines 138-153: the response to the tool results.
FollowupResponse(r) ==
    /\ pc = "AwaitingFollowupResponse"
    /\ lastResp' = [kind |-> r.kind, calls |-> Len(SelectType(r.parts, "FunctionCall"))]
    /\ IF r.kind = "err"
       THEN pc' = toolResponseError /\ UNCHANGED stdout
       ELSE IF r.kind # "ok"
       THEN pc' = "Crashed" /\ UNCHANGED stdout
       ELSE /\ stdout' = stdout \o Texts(r.parts)
            /\ pc' = "AwaitingUserInput"
    /\ UNCHANGED <<stdin, fs, sent, toolCalls, toolParts, faulty>>

Next ==
    \/ GetUserMessageEOF
    \/ SendUserText
    \/ \E r \in Responses : ModelResponse(r)
    \/ \E wr \in WriteOutcomes : ExecuteTool(wr)
    \/ SendToolResults
    \/ \E r \in Responses : FollowupResponse(r)

Spec == Init /\ [][Next]_vars

\* Run is one sequential loop: while the input source delivers, the gateway
\* answers and the tools return, its next step is taken.
SpecLive == Spec /\ WF_vars(Next)

\* ------------------------------------------- the tools on bounded inputs
\* Agent.Run in DispatchingTools with the same call twice in toolCalls, for
\* every call over the bounded arguments and a family of directory trees.
PathArgs == {JStr(p) : p \in Paths \cup {<<>>}} \cup {JAbsent, JNull, JNum}
TextArgs == {JStr(t) : t \in Strings} \cup {JAbsent, JNull, JNum}

ToolCalls ==
    {FunctionCall("edit_file", EditArgs(p, o, n)) : p \in PathArgs, o \in TextArgs, n \in TextArgs}
    \cup {FunctionCall("read_file", PathArg(p)) : p \in PathArgs}
    \cup {FunctionCall("list_files", PathArg(p)) : p \in PathArgs}

Trees ==
    {EmptyFS}
    \cup {[EmptyFS EXCEPT ![<<"a">>] = FileNode(c)] : c \in Strings}
    \cup {[EmptyFS EXCEPT ![<<"a">>] = DirNode, ![<<"a", "a">>] = FileNode(c)] : c \in Strings}
    \cup {[EmptyFS EXCEPT ![<<"a">>] = DirNode, ![<<"a", "a">>] = FileNode(c),
                          ![<<"b">>] = DirNode, ![FailedTxt] = FileNode(c)] : c \in Strings}
    \cup {[EmptyFS EXCEPT ![<<"a">>] = FileNode(<<>>), ![<<"b">>] = DirNode,
                          ![<<"b", "a">>] = FileNode(<<"a">>)]}

InitTool ==
    /\ pc = "DispatchingTools"
    /\ stdin = 0
    /\ fs \in Trees
    /\ sent = <<UserTurn>>
    /\ lastResp = [kind |-> "ok", calls |-> 2]
    /\ \E c \in ToolCalls : toolCalls = <<c, c>>
    /\ toolParts = <<>>
    /\ stdout = <<"You">>
    /\ faulty = FALSE

NextTool ==
    \/ \E wr \in WriteOutcomes : ExecuteTool(wr)
    \/ SendToolResults

SpecTool == InitTool /\ [][NextTool]_vars

\* One edit_file call on a disk that may fail a write (no space, an I/O
\* error): os.WriteFile returns the error of the open or of the write.
InitFault ==
    /\ pc = "DispatchingTools"
    /\ stdin = 0
    /\ fs \in Trees
    /\ sent = <<UserTurn>>
    /\ lastResp = [kind |-> "ok", calls |-> 1]
    /\ \E c \in ToolCalls : c.name = "edit_file" /\ toolCalls = <<c>>
    /\ toolParts = <<>>
    /\ stdout = <<"You">>
    /\ faulty = TRUE

SpecFault == InitFault /\ [][NextTool]_vars

\* ------------------------------------------------- properties of the tools
Dispatching == pc = "DispatchingTools" /\ Len(toolParts) < Len(toolCalls)
CurCall == toolCalls[Len(toolParts) + 1]
Answered == pc' = "DispatchingTools" /\ Len(toolParts') = Len(toolParts) + 1
NewResult == toolParts'[Len(toolParts')].Response

Exists(f, p) == f[p].kind # "none"

\* An edit_file call with a path and text arguments of the right type.
EditCall(c) ==
    /\ c.name = "edit_file"
    /\ c.args.path.t = "str" /\ c.args.path.v # <<>>
    /\ c.args.old_str.t \in {"str", "absent", "null"}
    /\ c.args.new_str.t \in {"str", "absent", "null"}
EditPath == CurCall.args.path.v
EditOld == CurCall.args.old_str.v
EditNew == CurCall.args.new_str.v

IsPrefixOf(q, p) == Len(q) <= Len(p) /\ q = Prefix(p, Len(q))

CreatedExactly ==
    /\ Answered
    /\ NewResult = [key |-> "result", msg |-> OutCreated, data |-> EditPath]
    /\ fs'[EditPath] = FileNode(EditNew)
    /\ \A i \in 1..(Len(EditPath) - 1) : fs'[Prefix(EditPath, i)].kind = "dir"
    /\ \A q \in DOMAIN fs : ~IsPrefixOf(q, EditPath) => fs'[q] = fs[q]

CreateCase == Dispatching /\ EditCall(CurCall) /\ EditOld = <<>> /\ ~Exists(fs, EditPath)

\* C7 as claimed: edit_file(path, old = "", new = X) on any path that does not
\* exist succeeds with the created result, the file then holds exactly X and
\* every missing parent directory has been made.
C7_AsClaimed == [][CreateCase => CreatedExactly]_vars

\* C7, amended: the same for every path that does not exist and none of whose
\* ancestors is a regular file.
C7_CreatesFileAndParents ==
    [][(CreateCase /\ \A i \in 1..(Len(EditPath) - 1) : fs[Prefix(EditPath, i)].kind # "file")
          => CreatedExactly]_vars

C7_Witness ==
    /\ pc = "DispatchingTools" /\ Len(toolParts) = 1
    /\ EditCall(toolCalls[1])
    /\ toolCalls[1].args.path.v = <<"b", "a">>
    /\ toolParts[1].Response.msg = OutCreated
    /\ fs[<<"b">>].kind = "dir" /\ fs[FailedTxt].kind = "none"
    /\ fs[<<"b", "a">>] = FileNode(<<"a", "b">>)

\* Occurrences of old in C, and the occurrences a left-to-right replacement
\* of all of them takes: a match is taken unless an earlier taken match
\* overlaps it.
OccursAt(C, old, i) ==
    /\ i + Len(old) - 1 <= Len(C)
    /\ \A j \in 1..Len(old) : C[i + j - 1] = old[j]
Matches(C, old) == {i \in 1..Len(C) : OccursAt(C, old, i)}
Taken(C, old) ==
    CHOOSE T \in SUBSET Matches(C, old) :
        \A i \in Matches(C, old) : i \in T <=> ~\E t \in T : t < i /\ i < t + Len(old)

RECURSIVE Rebuild(_, _, _, _, _)
Rebuild(C, old, new, T, i) ==
    IF i > Len(C) THEN <<>>
    ELSE IF i \in T THEN new \o Rebuild(C, old, new, T, i + Len(old))
    ELSE <<C[i]>> \o Rebuild(C, old, new, T, i + 1)

ReplaceCase ==
    /\ Dispatching /\ EditCall(CurCall)
    /\ fs[EditPath].kind = "file"
    /\ EditOld # <<>> /\ EditOld # EditNew

\* C8: on an existing file whose content C contains the non-empty old (new
\* differing from old), edit_file writes back C with every occurrence of old
\* replaced by new; the same call applied again leaves the file unchanged
\* whenever old no longer occurs in what was written.
C8_ReplacesEveryOccurrence ==
    [][/\ (ReplaceCase /\ Matches(fs[EditPath].data, EditOld) # {})
            => /\ Answered
               /\ NewResult = [key |-> "result", msg |-> OutUpdated, data |-> EditPath]
               /\ fs' = [fs EXCEPT ![EditPath] = FileNode(
                            Rebuild(fs[EditPath].data, EditOld, EditNew,
                                    Taken(fs[EditPath].data, EditOld), 1))]
       /\ (/\ ReplaceCase /\ Len(toolParts) = 1 /\ toolCalls[2] = toolCalls[1]
           /\ toolParts[1].Response.msg = OutUpdated
           /\ Matches(fs[EditPath].data, EditOld) = {})
            => Answered /\ fs' = fs]_vars

C8_Witness ==
    /\ pc = "DispatchingTools" /\ Len(toolParts) = 2
    /\ EditCall(toolCalls[1]) /\ toolCalls[2] = toolCalls[1]
    /\ toolCalls[1].args.path.v = <<"a">>
    /\ toolCalls[1].args.old_str = JStr(<<"a">>)
    /\ toolCalls[1].args.new_str = JStr(<<"b">>)
    /\ toolParts[1].Response.msg = OutUpdated
    /\ toolParts[2].Response.msg = ErrNoMatch
    /\ fs[<<"a">>] = FileNode(<<"b", "b">>)

\* C9: edit_file(old = X, new = Y), X non-empty and Y another text, on an
\* existing file whose content does not contain X fails with "old_str not
\* found in file" and leaves the whole filesystem as it was.
C9_NoMatchLeavesFile ==
    [][(ReplaceCase /\ Matches(fs[EditPath].data, EditOld) = {})
          => /\ Answered
             /\ NewResult = [key |-> "error", msg |-> ErrNoMatch, data |-> <<>>]
             /\ fs' = fs]_vars

C9_Witness ==
    /\ pc = "DispatchingTools" /\ Len(toolParts) = 1
    /\ EditCall(toolCalls[1])
    /\ toolCalls[1].args.path.v = <<"a", "a">>
    /\ toolCalls[1].args.old_str = JStr(<<"b">>)
    /\ toolCalls[1].args.new_str = JStr(<<"a">>)
    /\ toolParts[1].Response.msg = ErrNoMatch
    /\ fs[<<"a", "a">>] = FileNode(<<"a", "a">>)

\* C10: edit_file(old = X, new = X) with non-empty X fails with "old_str and
\* new_str must be different" whether the file exists or not (also when the
\* path is missing), and the filesystem is left as it was.
C10_SameStrRejected ==
    [][(/\ Dispatching /\ CurCall.name = "edit_file"
        /\ CurCall.args.path.t # "num"
        /\ CurCall.args.old_str.t = "str" /\ CurCall.args.new_str.t = "str"
        /\ EditOld = EditNew /\ EditOld # <<>>)
          => /\ Answered
             /\ NewResult = [key |-> "error", msg |-> ErrSameStr, data |-> <<>>]
             /\ fs' = fs]_vars

C10_Witness ==
    /\ pc = "DispatchingTools" /\ Len(toolParts) = 2
    /\ toolCalls[1].name = "edit_file"
    /\ toolCalls[1].args = EditArgs(JStr(<<"b", "a">>), JStr(<<"a">>), JStr(<<"a">>))
    /\ toolParts[1].Response.msg = ErrSameStr
    /\ toolParts[2].Response.msg = ErrSameStr
    /\ fs[<<"b">>].kind = "none" /\ fs[<<"a">>].kind = "file"

\* ------------------------------------------------ properties of the loop
Unknown(c) == c.name \notin ToolNames
LastSent == sent[Len(sent)]

\* C1 as claimed: every response to a user turn with n >= 1 tool calls gets
\* exactly n results, one per call in order, and the loop leaves the batch
\* only by sending all n as one follow-up turn, before any further input is
\* read.
C1_AsClaimed ==
    /\ toolCalls # <<>> => pc = "DispatchingTools"
    /\ pc = "DispatchingTools" =>
          /\ Len(toolParts) <= Len(toolCalls)
          /\ \A i \in 1..Len(toolParts) : toolParts[i].Name = toolCalls[i].name
    /\ pc = "AwaitingFollowupResponse" =>
          /\ lastResp.calls >= 1
          /\ LastSent = ToolsTurn(lastResp.calls)
          /\ sent[Len(sent) - 1] = UserTurn

\* C2 as claimed: once the follow-up response has been received the loop is
\* back in AwaitingUserInput, nothing of that response has been executed or
\* answered, and tools are only ever dispatched for the response to a user
\* turn.
C2_AsClaimed ==
    [][/\ (pc = "AwaitingFollowupResponse" /\ lastResp'.kind # "err")
            => /\ pc' = "AwaitingUserInput"
               /\ toolCalls' = <<>>
               /\ fs' = fs /\ sent' = sent
       /\ pc' = "DispatchingTools" => sent'[Len(sent')] = UserTurn]_vars

\* C3 as claimed: in a batch that names an unknown tool, every call is
\* answered at its own position, the unknown ones by "tool not found" and
\* the known ones by the tool's own result, and the whole batch is sent as
\* one follow-up turn.
C3_AsClaimed ==
    [][(pc = "DispatchingTools" /\ \E i \in 1..Len(toolCalls) : Unknown(toolCalls[i]))
          => IF Len(toolParts) < Len(toolCalls)
             THEN /\ Answered
                  /\ toolParts' = Append(toolParts, toolParts'[Len(toolParts')])
                  /\ toolParts'[Len(toolParts')].Name = CurCall.name
                  /\ Unknown(CurCall) <=> NewResult.msg = ErrToolNotFound
                  /\ Unknown(CurCall) => fs' = fs
             ELSE /\ pc' = "AwaitingFollowupResponse"
                  /\ sent' = Append(sent, ToolsTurn(Len(toolCalls)))]_vars

\* C4: a failed gateway call, of the user text or of the tool results, ends
\* the loop with the error: nothing is sent again, no tool runs, no input is
\* read, in that step or ever after.
C4_GatewayErrorEndsLoop ==
    [][/\ (pc \in {"AwaitingModelResponse", "AwaitingFollowupResponse"} /\ lastResp'.kind = "err")
            => pc' = "Failed" /\ UNCHANGED <<stdin, fs, sent, toolCalls, toolParts, stdout>>
       /\ pc = "Failed" => UNCHANGED vars]_vars

C4_Witness ==
    /\ pc = "Failed"
    /\ lastResp.kind = "err"
    /\ Len(sent) = 2 /\ LastSent = ToolsTurn(2)
    /\ stdin > 0
    /\ fs[<<"b", "a">>].kind = "file"

\* C5 as claimed: a tool execution that fails does not stop the loop; the
\* failure becomes that call's error result and dispatch goes on.
C5_AsClaimed ==
    [][(Dispatching /\ LET r == executeTool(fs, CurCall, -1)
                       IN  r.panic \/ r.result.key = "error")
          => Answered /\ NewResult.key = "error"]_vars

\* C6: at end-of-input in AwaitingUserInput the loop enters Closed, without
\* error and without sending or executing anything, and Closed is final.
C6_EndOfInputCloses ==
    [][/\ (pc = "AwaitingUserInput" /\ stdin = 0)
            => pc' = "Closed" /\ UNCHANGED <<stdin, fs, sent, toolCalls, toolParts>>
       /\ pc = "Closed" => UNCHANGED vars]_vars

C6_Witness ==
    /\ pc = "Closed"
    /\ Len(sent) = 3 /\ LastSent = UserTurn
    /\ lastResp = [kind |-> "ok", calls |-> 0]

\* C11 as claimed: after any edit_file call either the call succeeded and
\* the file holds the complete new content, or the call returned an error and
\* the filesystem is exactly what it was before the call.
C11_AsClaimed ==
    [][(Dispatching /\ EditCall(CurCall) /\ Answered)
          => \/ /\ NewResult.key = "result"
                /\ fs'[EditPath].kind = "file"
                /\ fs'[EditPath].data =
                      IF Exists(fs, EditPath)
                      THEN strings_Replace(fs[EditPath].data, EditOld, EditNew)
                      ELSE EditNew
             \/ /\ NewResult.key = "error"
                /\ fs' = fs]_vars

\* Arguments that do not convert: a field of the wrong type, or no path for
\* a tool whose path is required.
BadArgs(c) ==
    /\ c.name \in ToolNames
    /\ \/ c.args.path.t = "num"
       \/ c.name = "edit_file" /\ (c.args.old_str.t = "num" \/ c.args.new_str.t = "num")
       \/ c.name \in {"read_file", "edit_file"} /\ c.args.path.t = "absent"

\* C12 as claimed: a call of read_file, list_files or edit_file whose
\* arguments do not convert is answered with an error result, the process
\* does not crash, and no file is read into a result, written or created, in
\* particular none at a default path.
C12_AsClaimed ==
    [][(Dispatching /\ BadArgs(CurCall))
          => /\ Answered
             /\ NewResult.key = "error"
             /\ fs' = fs]_vars

\* list_files with a path of the right type; no path, null and "" are the
\* working directory <<>>.
ListCase ==
    /\ Dispatching /\ CurCall.name = "list_files"
    /\ CurCall.args.path.t \in {"str", "absent", "null"}
ListRoot == CurCall.args.path.v
Below(f, d) == {p \in DOMAIN f : Len(p) > Len(d) /\ IsPrefixOf(d, p) /\ Exists(f, p)}

\* x is listed before y: x is an ancestor of y, or at the first component
\* where they differ the name in x is the smaller one.
Before(x, y) ==
    \/ Len(x) < Len(y) /\ IsPrefixOf(x, y)
    \/ \E i \in 1..Len(x) :
          /\ i <= Len(y)
          /\ Prefix(x, i - 1) = Prefix(y, i - 1)
          /\ NameRank[x[i]] < NameRank[y[i]]

\* C13: list_files on a directory answers with one entry for every file and
\* directory strictly below it and none for the directory itself, each the
\* path relative to it, directories marked by the trailing "/", in the order
\* of the names level by level with a directory directly before its contents;
\* without a path or with "" it lists the working directory; on a path that
\* does not exist it fails; the filesystem is never changed.
C13_ListsTreeInOrder ==
    [][/\ (ListCase /\ (ListRoot = <<>> \/ fs[ListRoot].kind = "dir"))
            => /\ Answered
               /\ NewResult.key = "result" /\ NewResult.msg = OutListing
               /\ Len(NewResult.data) = Cardinality(Below(fs, ListRoot))
               /\ \A p \in Below(fs, ListRoot) : \E i \in 1..Len(NewResult.data) :
                     NewResult.data[i] = [rel |-> SubSeq(p, Len(ListRoot) + 1, Len(p)),
                                          dir |-> fs[p].kind = "dir"]
               /\ \A i, j \in 1..Len(NewResult.data) :
                     i < j => Before(NewResult.data[i].rel, NewResult.data[j].rel)
               /\ fs' = fs
       /\ (ListCase /\ ListRoot # <<>> /\ ~Exists(fs, ListRoot))
            => Answered /\ NewResult.key = "error" /\ fs' = fs]_vars

C13_Witness ==
    /\ pc = "DispatchingTools" /\ Len(toolParts) = 2
    /\ toolCalls[1] = FunctionCall("list_files", PathArg(JAbsent))
    /\ toolParts[2].Response.data = <<[rel |-> <<"a">>, dir |-> FALSE],
                                      [rel |-> <<"b">>, dir |-> TRUE],
                                      [rel |-> <<"b", "a">>, dir |-> FALSE]>>

\* read_file with a path of the right type.
ReadCase ==
    /\ Dispatching /\ CurCall.name = "read_file"
    /\ CurCall.args.path.t = "str" /\ CurCall.args.path.v # <<>>
ReadPath == CurCall.args.path.v

\* The errors os.ReadFile passes on from the system calls: those of open(2)
\* on a path that cannot be resolved, and those of read(2) on the opened
\* file, which are the I/O errors of the read.
OpenErrors == {"ENOENT", "ENOTDIR"}
ReadErrors == {"EISDIR", "EIO"}

\* C14 as claimed: read_file answers an existing regular file with its
\* content unchanged, a path that does not exist with the not-found error,
\* and a directory with an error of its own that a check made before the
\* read produces, never with an I/O error of the read; the filesystem is
\* left as it was.
C14_AsClaimed ==
    [][ReadCase
          => /\ Answered /\ fs' = fs
             /\ fs[ReadPath].kind = "file"
                   => NewResult = [key |-> "result", msg |-> OutContent, data |-> fs[ReadPath].data]
             /\ fs[ReadPath].kind = "none"
                   => NewResult.key = "error" /\ NewResult.msg \in OpenErrors
             /\ fs[ReadPath].kind = "dir"
                   => NewResult.key = "error" /\ NewResult.msg \notin OpenErrors \cup ReadErrors]_vars

\* C15 as claimed: a response to a user turn that holds no tool call takes
\* the loop straight back to AwaitingUserInput, with no tool executed and
\* nothing sent; and a tool-results turn is only ever sent directly after a
\* user-text turn whose response held at least one tool call.
C15_AsClaimed ==
    [][/\ (pc = "AwaitingModelResponse" /\ lastResp'.kind # "err" /\ lastResp'.calls = 0)
            => /\ pc' = "AwaitingUserInput"
               /\ toolCalls' = <<>>
               /\ fs' = fs /\ sent' = sent
       /\ (\E n \in 0..MaxParts : sent' = Append(sent, ToolsTurn(n)))
            => /\ LastSent = UserTurn
               /\ lastResp.kind = "ok" /\ lastResp.calls >= 1]_vars

\* C16: the calls of a response are executed one at a time in their order:
\* each step of the dispatch runs the first call not yet answered on the
\* filesystem the calls before it left, and appends that call's result under
\* that call's name; nothing is sent while a call is unanswered; and the
\* follow-up turn is sent only when every call has its result at its own
\* position.
C16_InOrderBeforeFollowup ==
    [][/\ (pc = "DispatchingTools" /\ (toolParts' # toolParts \/ fs' # fs) /\ pc' = pc)
            => /\ Dispatching
               /\ toolCalls' = toolCalls
               /\ toolParts' = Append(toolParts,
                                      [Name |-> CurCall.name,
                                       Response |-> executeTool(fs, CurCall, -1).result])
               /\ fs' = executeTool(fs, CurCall, -1).fs
       /\ fs' # fs => pc = "DispatchingTools"
       /\ Dispatching => sent' = sent
       /\ sent' # sent /\ pc = "DispatchingTools"
            => /\ sent' = Append(sent, ToolsTurn(Len(toolCalls)))
               /\ Len(toolParts) = Len(toolCalls)
               /\ \A i \in 1..Len(toolCalls) : toolParts[i].Name = toolCalls[i].name
       /\ (\E n \in 0..MaxParts : sent' = Append(sent, ToolsTurn(n)))
            => pc = "DispatchingTools"]_vars

C16_Witness ==
    /\ pc = "DispatchingTools" /\ Len(toolParts) = 2
    /\ toolCalls[1] = FunctionCall("read_file", PathArg(JStr(<<"a">>)))
    /\ toolCalls[2].name = "edit_file"
    /\ toolParts[1] = [Name |-> "read_file",
                       Response |-> [key |-> "result", msg |-> OutContent, data |-> <<"a", "a">>]]
    /\ toolParts[2].Name = "edit_file"
    /\ toolParts[2].Response.msg = OutUpdated
    /\ fs[<<"a">>] = FileNode(<<"b", "b">>)

\* edit_file with a non-empty old on a path where nothing exists.
MissingCase == Dispatching /\ EditCall(CurCall) /\ EditOld # <<>> /\ ~Exists(fs, EditPath)
BelowFile == \E i \in 1..(Len(EditPath) - 1) : fs[Prefix(EditPath, i)].kind = "file"

\* C17 as claimed: edit_file with a non-empty old on any path that does not
\* exist fails with one of the errors about its arguments and leaves the
\* filesystem as it was: no file and no parent directory is made.
C17_AsClaimed ==
    [][MissingCase
          => /\ Answered
             /\ NewResult.key = "error"
             /\ NewResult.msg \in {ErrNoFile, ErrSameStr}
             /\ fs' = fs]_vars

\* C17, amended: the call fails and leaves the filesystem as it was; the
\* error is one about its arguments ("file does not exist and old_str is not
\* empty", or "old_str and new_str must be different" when new equals old),
\* except below a regular file, where it is the not-a-directory error of the
\* read.
C17_MissingFileRejected ==
    [][MissingCase
          => /\ Answered
             /\ NewResult.key = "error"
             /\ NewResult.msg = IF EditOld = EditNew THEN ErrSameStr
                                ELSE IF BelowFile THEN "ENOTDIR"
                                ELSE ErrNoFile
             /\ fs' = fs]_vars

C17_Witness ==
    /\ pc = "DispatchingTools" /\ Len(toolParts) = 1
    /\ toolCalls[1].name = "edit_file"
    /\ toolCalls[1].args = EditArgs(JStr(<<"b", "a">>), JStr(<<"a">>), JStr(<<"b">>))
    /\ toolParts[1].Response = [key |-> "error", msg |-> ErrNoFile, data |-> <<>>]
    /\ fs[<<"b">>].kind = "none" /\ fs[<<"b", "a">>].kind = "none"
    /\ fs[<<"a">>].kind = "dir"

\* The loop stopped by the panic of a tool, which is a tool execution that
\* does not return.
ToolPanicked == pc = "Crashed" /\ lastResp.kind = "ok"

\* C18 as claimed: while the gateway answers and the tools return, every
\* user turn comes back to AwaitingUserInput unless the gateway answered
\* with an error, and on an input of finitely many lines the loop ends in
\* Closed, or in Failed after a gateway error.
C18_AsClaimed ==
    /\ (pc = "AwaitingModelResponse")
          ~> (pc \in {"AwaitingUserInput", "Failed"} \/ ToolPanicked)
    /\ <>(pc \in {"Closed", "Failed"} \/ ToolPanicked)

\* C19 as claimed: no response that the gateway returned without an error
\* crashes the loop, the first one or the follow-up; a response with no
\* candidate or no content displays nothing, dispatches nothing and takes
\* the loop back to AwaitingUserInput.
C19_AsClaimed ==
    [][(pc \in {"AwaitingModelResponse", "AwaitingFollowupResponse"} /\ lastResp'.kind # "err")
          => /\ pc' # "Crashed"
             /\ lastResp'.kind \in {"nocand", "nilcontent"}
                   => /\ pc' = "AwaitingUserInput"
                      /\ stdout' = stdout
                      /\ toolCalls' = <<>>]_vars

\* edit_file with an empty old on an existing regular file.
EmptyOldCase ==
    /\ Dispatching /\ EditCall(CurCall)
    /\ EditOld = <<>>
    /\ fs[EditPath].kind = "file"

\* C with new inserted before every character and once at the end: blocks
\* of new followed by one character of C, then new.
Interleaved(C, new) ==
    [k \in 1..(Len(C) * (Len(new) + 1) + Len(new)) |->
        LET j == ((k - 1) \div (Len(new) + 1)) + 1
            o == ((k - 1) % (Len(new) + 1)) + 1
        IN  IF o <= Len(new) THEN new[o] ELSE C[j]]

\* C20: edit_file with an empty old on an existing file answers with the
\* updated result, never with created and never with an error, and writes
\* the previous content with new inserted before every character and once at
\* the end; with new empty as well the content is unchanged; no other file
\* or directory changes.
C20_EmptyOldInterleaves ==
    [][EmptyOldCase
          => /\ Answered
             /\ NewResult = [key |-> "result", msg |-> OutUpdated, data |-> EditPath]
             /\ fs' = [fs EXCEPT ![EditPath] = FileNode(Interleaved(fs[EditPath].data, EditNew))]
             /\ EditNew = <<>> => fs' = fs]_vars

C20_Witness ==
    /\ pc = "DispatchingTools" /\ Len(toolParts) = 1
    /\ toolCalls[1].name = "edit_file"
    /\ toolCalls[1].args = EditArgs(JStr(<<"a">>), JStr(<<>>), JStr(<<"b">>))
    /\ toolParts[1].Response = [key |-> "result", msg |-> OutUpdated, data |-> <<"a">>]
    /\ fs[<<"a">>] = FileNode(<<"b", "a", "b", "a", "b">>)

====
